---- MODULE Spec2Model ----
(***************************************************************************)
(* The bulk-update engine of the Postman collection toolkit (src/app.py).  *)
(*                                                                         *)
(* Python values are modelled as follows.                                  *)
(*   str    a sequence of one-character strings, <<"a", ".", "b">>         *)
(*   dict   a record; a key that is absent is absent from DOMAIN           *)
(*   list   a sequence                                                     *)
(*   None   the one-element sequence <<"None">>, which is no str           *)
(* A url held as a Python str is the record [str |-> chars], so that       *)
(* isinstance(url, str) can be decided.                                    *)
(* A raised exception is the result [ok |-> FALSE]; a computed value v is  *)
(* [ok |-> TRUE, val |-> v].                                               *)
(***************************************************************************)
EXTENDS Naturals, Sequences, FiniteSets, TLC

VARIABLES
    uploads,    \* uploads/<filename>: <<>> when no such file, else <<collection>>
    response,   \* the last HTTP response
    op,         \* history: the last handler called, with a bulk update's request data
    before,     \* history: uploads as it was when the last handler, a bulk update,
                \* was called; <<>> after any other handler
    visited     \* history: the items whose request process_items handled, in order

vars == <<uploads, response, op, before, visited>>

----------------------------------------------------------------------------
(* dict and str primitives *)

Has(d, k) == k \in DOMAIN d

Put(d, k, v) == [f \in (DOMAIN d) \cup {k} |-> IF f = k THEN v ELSE d[f]]

Get(d, k, default) == IF k \in DOMAIN d THEN d[k] ELSE default

None == <<"None">>

Ok(v) == [ok |-> TRUE, val |-> v]

Err == [ok |-> FALSE]

\* str(x) inside an f-string
Str(x) == IF x = None THEN <<"N", "o", "n", "e">> ELSE x

\* The least index at which sep occurs in s, 0 when it does not.
Find(s, sep) ==
    LET hits == {i \in 1..Len(s) : /\ i + Len(sep) - 1 <= Len(s)
                                   /\ SubSeq(s, i, i + Len(sep) - 1) = sep}
    IN  IF hits = {} THEN 0 ELSE CHOOSE i \in hits : \A j \in hits : i <= j

\* sep in s
Contains(s, sep) == Find(s, sep) # 0

\* s.split(sep): always at least one part
RECURSIVE Split(_, _)
Split(s, sep) ==
    LET i == Find(s, sep)
    IN  IF i = 0 THEN <<s>>
        ELSE <<SubSeq(s, 1, i - 1)>> \o Split(SubSeq(s, i + Len(sep), Len(s)), sep)

\* sep.join(parts)
RECURSIVE Join(_, _)
Join(parts, sep) ==
    IF parts = <<>> THEN <<>>
    ELSE IF Len(parts) = 1 THEN parts[1]
    ELSE parts[1] \o sep \o Join(Tail(parts), sep)

\* The index of the first entry of list whose 'key' is key, 0 when none:
\* the for ... if ... break scans of process_items.
FirstMatch(list, key) ==
    LET hits == {i \in 1..Len(list) : list[i].key = key}
    IN  IF hits = {} THEN 0 ELSE CHOOSE i \in hits : \A j \in hits : i <= j

\* [e for e in list if e['key'] != key]
Without(list, key) ==
    LET Keep(e) == e.key # key IN SelectSeq(list, Keep)

----------------------------------------------------------------------------
(* process_items: the header operator *)

\* HeadersAdd without the break: every entry with the key is rewritten.
HeadersAddEvery(req, d) ==
    LET header == IF Has(req, "header") THEN req.header ELSE <<>>
    IN  IF ~Has(d, "key") \/ ~Has(d, "value") THEN Err
        ELSE IF FirstMatch(header, d.key) # 0
        THEN Ok(Put(req, "header",
                    [i \in 1..Len(header) |->
                        IF header[i].key = d.key THEN Put(header[i], "value", d.value)
                        ELSE header[i]]))
        ELSE Ok(Put(req, "header",
                    Append(header, [key |-> d.key, value |-> d.value,
                                    type |-> Get(d, "type", <<"t", "e", "x", "t">>)])))

\* HeadersAdd without the scan: the entry is always appended.
HeadersAddAppend(req, d) ==
    LET header == IF Has(req, "header") THEN req.header ELSE <<>>
    IN  IF ~Has(d, "key") \/ ~Has(d, "value") THEN Err
        ELSE Ok(Put(req, "header",
                    Append(header, [key |-> d.key, value |-> d.value,
                                    type |-> Get(d, "type", <<"t", "e", "x", "t">>)])))

\* update_data['action'] == 'add' under update_type == 'headers'
HeadersAdd(req, d) ==
    LET header == IF Has(req, "header") THEN req.header ELSE <<>>
    IN  IF header # <<>> /\ ~Has(d, "key") THEN Err
        ELSE LET i == IF Has(d, "key") THEN FirstMatch(header, d.key) ELSE 0
             IN  IF i # 0
                 THEN IF ~Has(d, "value") THEN Err
                      ELSE Ok(Put(req, "header",
                                  [header EXCEPT ![i] = Put(header[i], "value", d.value)]))
                 ELSE IF ~Has(d, "key") \/ ~Has(d, "value") THEN Err
                      ELSE Ok(Put(req, "header",
                                  Append(header, [key   |-> d.key,
                                                  value |-> d.value,
                                                  type  |-> Get(d, "type", <<"t", "e", "x", "t">>)])))

\* HeadersRemove that drops the first entry with the key only.
HeadersRemoveFirst(req, d) ==
    IF ~Has(req, "header") THEN Ok(req)
    ELSE IF req.header # <<>> /\ ~Has(d, "key") THEN Err
    ELSE IF req.header = <<>> \/ FirstMatch(req.header, d.key) = 0 THEN Ok(req)
    ELSE LET i == FirstMatch(req.header, d.key)
         IN  Ok(Put(req, "header",
                    SubSeq(req.header, 1, i - 1) \o SubSeq(req.header, i + 1, Len(req.header))))

\* update_data['action'] == 'remove' under update_type == 'headers'
HeadersRemove(req, d) ==
    IF ~Has(req, "header") THEN Ok(req)
    ELSE IF req.header # <<>> /\ ~Has(d, "key") THEN Err
    ELSE IF req.header = <<>> THEN Ok(req)
    ELSE Ok(Put(req, "header", Without(req.header, d.key)))

HeadersUpdate(req, d) ==
    IF ~Has(d, "action") THEN Err
    ELSE IF d.action = "add" THEN HeadersAdd(req, d)
    ELSE IF d.action = "remove" THEN HeadersRemove(req, d)
    ELSE Ok(req)

----------------------------------------------------------------------------
(* process_items: the url normalizer and the query operator *)

IsStr(url) == DOMAIN url = {"str"}

SchemeSep == <<":", "/", "/">>

\* Convert string URL to object format
StringToObject(s) ==
    LET url_parts == Split(s, <<"?">>)
        has       == Contains(url_parts[1], SchemeSep)
    IN  [raw      |-> s,
         protocol |-> IF has THEN Split(url_parts[1], SchemeSep)[1] ELSE None,
         host     |-> IF has
                      THEN Split(Split(Split(url_parts[1], SchemeSep)[2], <<"/">>)[1], <<".">>)
                      ELSE Split(Split(url_parts[1], <<"/">>)[1], <<".">>),
         path     |-> IF has
                      THEN Tail(Split(Split(url_parts[1], SchemeSep)[2], <<"/">>))
                      ELSE Tail(Split(url_parts[1], <<"/">>)),
         query    |-> <<>>]

\* f"{q['key']}={q['value']}" for q in query
RECURSIVE QueryPairs(_)
QueryPairs(query) ==
    IF query = <<>> THEN <<>>
    ELSE <<Str(query[1].key) \o <<"=">> \o Str(query[1].value)>> \o QueryPairs(Tail(query))

\* Update raw URL
RebuildRaw(url) ==
    LET query_part == Join(QueryPairs(url.query), <<"&">>)
        path_part  == Join(Get(url, "path", <<>>), <<"/">>)
        protocol   == Get(url, "protocol", <<"h", "t", "t", "p">>)
        host_part  == Join(Get(url, "host", <<>>), <<".">>)
    IN  Str(protocol) \o SchemeSep \o host_part \o <<"/">> \o path_part
            \o <<"?">> \o query_part

\* QueryAdd without the break: every entry with the key is rewritten.
QueryAddEvery(url, d) ==
    IF ~Has(d, "key") \/ ~Has(d, "value") THEN Err
    ELSE LET q == IF FirstMatch(url.query, d.key) # 0
                  THEN [i \in 1..Len(url.query) |->
                           IF url.query[i].key = d.key
                           THEN Put(url.query[i], "value", d.value) ELSE url.query[i]]
                  ELSE Append(url.query, [key |-> d.key, value |-> d.value])
             u == Put(url, "query", q)
         IN  Ok(Put(u, "raw", RebuildRaw(u)))

\* update_data['action'] == 'add' under update_type == 'query_params';
\* url is a dict that has 'query'
QueryAdd(url, d) ==
    IF url.query # <<>> /\ ~Has(d, "key") THEN Err
    ELSE LET i == IF Has(d, "key") THEN FirstMatch(url.query, d.key) ELSE 0
             q == IF i # 0
                  THEN IF ~Has(d, "value") THEN Err
                       ELSE Ok([url.query EXCEPT ![i] = Put(url.query[i], "value", d.value)])
                  ELSE IF ~Has(d, "key") \/ ~Has(d, "value") THEN Err
                       ELSE Ok(Append(url.query, [key |-> d.key, value |-> d.value]))
         IN  IF ~q.ok THEN Err
             ELSE LET u == Put(url, "query", q.val)
                  IN  Ok(Put(u, "raw", RebuildRaw(u)))

\* QueryRemove that regenerates raw, as the add does.
QueryRemoveResync(url, d) ==
    IF url.query # <<>> /\ ~Has(d, "key") THEN Err
    ELSE LET u == Put(url, "query",
                      IF url.query = <<>> THEN <<>> ELSE Without(url.query, d.key))
         IN  Ok(Put(u, "raw", RebuildRaw(u)))

\* update_data['action'] == 'remove' under update_type == 'query_params'
QueryRemove(url, d) ==
    IF url.query # <<>> /\ ~Has(d, "key") THEN Err
    ELSE IF url.query = <<>> THEN Ok(url)
    ELSE Ok(Put(url, "query", Without(url.query, d.key)))

\* if 'query' not in item['request']['url']
WithQuery(url) == IF Has(url, "query") THEN url ELSE Put(url, "query", <<>>)

\* The url after lines 138-150: a dict that has 'query'.
Normalize(url) == WithQuery(IF IsStr(url) THEN StringToObject(url.str) ELSE url)

\* The add or the remove on the normalized url.
QueryUpdate(url, d) ==
    IF ~Has(d, "action") THEN Err
    ELSE IF d.action = "add" THEN QueryAdd(url, d)
    ELSE IF d.action = "remove" THEN QueryRemove(url, d)
    ELSE Ok(url)

\* The request with the url it ends with, unless the operation raised.
SetUrl(req, r) == IF r.ok THEN Ok(Put(req, "url", r.val)) ELSE Err

QueryParamsUpdate(req, d) ==
    IF ~Has(req, "url") THEN Ok(req)
    ELSE SetUrl(req, QueryUpdate(Normalize(req.url), d))

----------------------------------------------------------------------------
(* process_items: the dispatch over updates.items() and the walk *)

\* One (update_type, update_data) of updates.items() applied to a request;
\* any other update_type matches neither branch.
ApplyUpdate(req, u) ==
    IF u.type = "headers" THEN HeadersUpdate(req, u.data)
    ELSE IF u.type = "query_params" THEN QueryParamsUpdate(req, u.data)
    ELSE Ok(req)

\* for update_type, update_data in updates.items(): the first of updates
\* applied with result r, the others follow unless it raised.
RECURSIVE ApplyUpdates(_, _)
ApplyRest(r, updates) == IF r.ok THEN ApplyUpdates(r.val, updates) ELSE Err

ApplyUpdates(req, updates) ==
    IF updates = <<>> THEN Ok(req)
    ELSE ApplyRest(ApplyUpdate(req, updates[1]), Tail(updates))

Failed == [ok |-> FALSE, items |-> <<>>, visited |-> <<>>]

\* ProcessFrom with "elif 'item' in item": an item that carries a request is
\* not descended into.
RECURSIVE ProcessFromElif(_, _, _, _)
ProcessFromElif(items, i, updates, path) ==
    IF i > Len(items) THEN [ok |-> TRUE, items |-> items, visited |-> <<>>]
    ELSE
    LET item == items[i]
        here == Append(path, i)
        r    == IF Has(item, "request") THEN ApplyUpdates(item.request, updates)
                ELSE Ok(<<>>)
        sub  == IF ~Has(item, "request") /\ Has(item, "item")
                THEN ProcessFromElif(item.item, 1, updates, here)
                ELSE [ok |-> TRUE, items |-> Get(item, "item", <<>>), visited |-> <<>>]
    IN  IF ~r.ok \/ ~sub.ok THEN Failed
        ELSE
        LET item1 == IF Has(item, "request") THEN Put(item, "request", r.val) ELSE item
            item2 == IF Has(item, "item") THEN Put(item1, "item", sub.items) ELSE item1
            seen  == IF Has(item, "request") THEN <<here>> ELSE <<>>
            rest  == ProcessFromElif([items EXCEPT ![i] = item2], i + 1, updates, path)
        IN  IF ~rest.ok THEN Failed
            ELSE [ok      |-> TRUE,
                  items   |-> rest.items,
                  visited |-> seen \o sub.visited \o rest.visited]

\* The item after its request was handled with result r and its nested items
\* with result sub.
Handled(item, r, sub) ==
    LET item1 == IF Has(item, "request") THEN Put(item, "request", r.val) ELSE item
    IN  IF Has(item, "item") THEN Put(item1, "item", sub.items) ELSE item1

\* The walk's result from the results of an item (seen: its place, if it
\* carries a request), of its nested items and of the items after it.
Walked(seen, sub, rest) ==
    IF ~rest.ok THEN Failed
    ELSE [ok      |-> TRUE,
          items   |-> rest.items,
          visited |-> seen \o sub.visited \o rest.visited]

\* for item in items, from the i-th item on; path is the place of items in
\* the document (the indices leading to it).  The request of the item is
\* handled first (r), then its nested items (sub), then the items after it.
RECURSIVE ProcessFrom(_, _, _, _)
ProcessNext(items, i, updates, path, r, sub) ==
    IF ~sub.ok THEN Failed
    ELSE Walked(IF Has(items[i], "request") THEN <<Append(path, i)>> ELSE <<>>,
                sub,
                ProcessFrom([items EXCEPT ![i] = Handled(items[i], r, sub)],
                            i + 1, updates, path))

ProcessNested(items, i, updates, path, r) ==
    IF ~r.ok THEN Failed
    ELSE ProcessNext(items, i, updates, path, r,
                     IF Has(items[i], "item")
                     THEN ProcessFrom(items[i].item, 1, updates, Append(path, i))
                     ELSE [ok |-> TRUE, items |-> <<>>, visited |-> <<>>])

ProcessFrom(items, i, updates, path) ==
    IF i > Len(items) THEN [ok |-> TRUE, items |-> items, visited |-> <<>>]
    ELSE ProcessNested(items, i, updates, path,
                       IF Has(items[i], "request")
                       THEN ApplyUpdates(items[i].request, updates)
                       ELSE Ok(<<>>))

process_items(items, updates) == ProcessFrom(items, 1, updates, <<>>)

----------------------------------------------------------------------------
(* The handlers.  Each takes the set its request data is drawn from. *)

Reply(status, success, body) ==
    [status |-> status, success |-> success, collection |-> body]

\* POST /api/upload, for a file part named *.json that holds JSON: the file
\* is saved first and validated afterwards.
upload_collection(files) ==
    \E collection \in files :
        /\ uploads' = <<collection>>
        /\ response' = IF ~Has(collection, "info") \/ ~Has(collection, "item")
                       THEN Reply(400, FALSE, <<>>)
                       ELSE Reply(200, TRUE, <<collection>>)
        /\ op' = [name |-> "upload"]
        /\ before' = <<>>
        /\ visited' = <<>>

\* GET /api/collection/<filename>
get_collection ==
    /\ response' = IF uploads = <<>> THEN Reply(404, FALSE, <<>>)
                   ELSE Reply(200, FALSE, uploads)
    /\ op' = [name |-> "get"]
    /\ before' = <<>>
    /\ visited' = <<>>
    /\ UNCHANGED uploads

\* POST /api/update-collection
update_collection(requests) ==
    \E data \in requests :
        /\ IF ~Has(data, "filename") \/ ~Has(data, "collection")
           THEN /\ response' = Reply(400, FALSE, <<>>)
                /\ UNCHANGED uploads
           ELSE /\ uploads' = <<data.collection>>
                /\ response' = Reply(200, TRUE, <<>>)
        /\ op' = [name |-> "update"]
        /\ before' = <<>>
        /\ visited' = <<>>

\* Save updated collection, unless process_items raised (its result is r).
Save(collection, r) ==
    IF r.ok
    THEN /\ uploads' = <<Put(collection, "item", r.items)>>
         /\ response' = Reply(200, TRUE, uploads')
         /\ visited' = r.visited
    ELSE /\ response' = Reply(500, FALSE, <<>>)
         /\ visited' = <<>>
         /\ UNCHANGED uploads

\* POST /api/bulk-update
bulk_update(requests) ==
    \E data \in requests :
        /\ op' = [name |-> "bulk_update", data |-> data]
        /\ before' = uploads
        /\ IF ~Has(data, "filename") \/ ~Has(data, "updates")
           THEN /\ response' = Reply(400, FALSE, <<>>)
                /\ visited' = <<>>
                /\ UNCHANGED uploads
           ELSE IF uploads = <<>> \/ ~Has(uploads[1], "item")
           THEN \* open() or collection['item'] raises
                /\ response' = Reply(500, FALSE, <<>>)
                /\ visited' = <<>>
                /\ UNCHANGED uploads
           ELSE Save(uploads[1], process_items(uploads[1].item, data.updates))

----------------------------------------------------------------------------
(* The inputs *)

MaxHeaders == 2
MaxQuery == 2
MaxDepth == 2
MaxUrlLen == 6

SeqsUpTo(S, n) == UNION {[1..m -> S] : m \in 0..n}

Text == <<"t", "e", "x", "t">>
K == <<"k">>
V == <<"2">>
Keys == {K, <<"j">>}
Values == {<<"1">>, V}

HeaderLists == SeqsUpTo({[key |-> k, value |-> v, type |-> Text] : k \in Keys, v \in Values},
                        MaxHeaders)

QueryLists == SeqsUpTo({[key |-> k, value |-> v] : k \in Keys, v \in Values}, MaxQuery)

HeaderDirectives ==
    { [action |-> "add", key |-> K, value |-> V],
      [action |-> "add", key |-> K, value |-> V, type |-> <<"x">>],
      [action |-> "remove", key |-> K],
      [action |-> "add", key |-> K],
      [action |-> "add", value |-> V],
      [action |-> "remove"] }

QueryDirectives ==
    { [action |-> "add", key |-> K, value |-> V],
      [action |-> "remove", key |-> K],
      [action |-> "add", key |-> K],
      [action |-> "add", value |-> V],
      [action |-> "remove"] }

Headers(d) == [type |-> "headers", data |-> d]
QueryParams(d) == [type |-> "query_params", data |-> d]

\* updates: a JSON object, its members in the order they were written
HeaderUpdates == {<<Headers(h)>> : h \in HeaderDirectives}
QueryUpdates == {<<QueryParams(q)>> : q \in QueryDirectives}
WellFormed(d) == Has(d, "key") /\ (d.action = "add" => Has(d, "value"))

AllUpdates ==
    {<<>>, <<[type |-> "body", data |-> [action |-> "add"]]>>}
        \cup HeaderUpdates \cup QueryUpdates
        \cup {<<Headers(h), QueryParams(q)>> :
                 h \in {x \in HeaderDirectives : ~Has(x, "type")}, q \in QueryDirectives}
        \cup {<<QueryParams(q), Headers(h)>> :
                 h \in {x \in HeaderDirectives : WellFormed(x)},
                 q \in {x \in QueryDirectives : WellFormed(x)}}

BulkRequests(updates) ==
    {[filename |-> "c.json"]} \cup {[filename |-> "c.json", updates |-> u] : u \in updates}

UpdateRequests(files) ==
    {[filename |-> "c.json"]} \cup {[filename |-> "c.json", collection |-> c] : c \in files}

ExampleUrl ==
    <<"h", "t", "t", "p", "s", ":", "/", "/", "a", "p", "i", ".", "e", "x", "a", "m", "p",
      "l", "e", ".", "c", "o", "m", "/", "v", "1", "/", "u", "s", "e", "r", "s">>

BareUrl == <<"a", ".", "b", "/", "c">>

StringUrls ==
    {[str |-> s] : s \in {ExampleUrl, BareUrl,
                          <<"h", ":", "/", "/", "a", "/", "b", "?", "k", "=", "1">>}}

StructuredUrls ==
    LET base == [raw |-> <<"r">>, host |-> <<<<"a">>, <<"b">>>>, path |-> <<<<"c">>>>,
                 port |-> <<"8", "0">>]
        opt  == {base, Put(base, "protocol", <<"w", "s">>)}
    IN  opt \cup {Put(u, "query", q) : u \in opt, q \in QueryLists}

BaseRequest == [method |-> "GET"]

Leaf(req) == [name |-> "n", request |-> req]

Doc(items) == [info |-> [name |-> "c"], item |-> items]

HeaderDocs ==
    {Doc(<<Leaf(r)>>) : r \in {BaseRequest} \cup {Put(BaseRequest, "header", h) : h \in HeaderLists}}

QueryDocs ==
    {Doc(<<Leaf(Put(BaseRequest, "url", u))>>) : u \in StringUrls \cup StructuredUrls}

Alphabet == {"a", ".", "/", ":", "?"}

UrlDocs ==
    {Doc(<<Leaf(Put(BaseRequest, "url", [str |-> s]))>>) :
        s \in SeqsUpTo(Alphabet, MaxUrlLen) \cup {ExampleUrl}}

TreeRequests ==
    { BaseRequest,
      [method |-> "GET",
       header |-> <<[key |-> K, value |-> <<"1">>, type |-> Text],
                    [key |-> <<"j">>, value |-> <<"1">>, type |-> Text]>>,
       url    |-> [str |-> BareUrl]],
      [method |-> "GET",
       header |-> <<>>,
       url    |-> [raw |-> <<"r">>, host |-> <<<<"a">>>>, path |-> <<>>,
                   query |-> <<[key |-> K, value |-> <<"1">>]>>]] }

\* A bare request followed by a chain nested d deep that ends in req; with
\* mixed, the items of the chain carry req as well as their nested items.
RECURSIVE Nest(_, _, _)
Nest(d, req, mixed) ==
    IF d = 0 THEN <<Leaf(req)>>
    ELSE <<Leaf(BaseRequest),
           IF mixed THEN [name |-> "f", request |-> req, item |-> Nest(d - 1, req, mixed)]
           ELSE [name |-> "f", item |-> Nest(d - 1, req, mixed)]>>

TreeDocs ==
    LET trees == {<<>>} \cup {Nest(d, r, m) : d \in 1..MaxDepth, r \in TreeRequests, m \in BOOLEAN}
    IN  {Doc(t) : t \in trees}
            \cup {[item |-> t] : t \in {Nest(1, r, TRUE) : r \in TreeRequests}}
            \cup {[info |-> [name |-> "c"]], [name |-> "c"]}

----------------------------------------------------------------------------
(* The specifications: the service over one family of collections each *)

Init ==
    /\ uploads = <<>>
    /\ response = Reply(0, FALSE, <<>>)
    /\ op = [name |-> "init"]
    /\ before = <<>>
    /\ visited = <<>>

\* nested collections, all updates
Next ==
    \/ upload_collection(TreeDocs)
    \/ update_collection(UpdateRequests(TreeDocs))
    \/ get_collection
    \/ bulk_update(BulkRequests(AllUpdates))

Spec == Init /\ [][Next]_vars

\* one request, every header list
NextHeaders ==
    \/ upload_collection(HeaderDocs)
    \/ update_collection(UpdateRequests(HeaderDocs))
    \/ get_collection
    \/ bulk_update(BulkRequests(HeaderUpdates \cup QueryUpdates))

SpecHeaders == Init /\ [][NextHeaders]_vars

\* one request, every structured url and some string urls
NextQuery ==
    \/ upload_collection(QueryDocs)
    \/ update_collection(UpdateRequests(QueryDocs))
    \/ get_collection
    \/ bulk_update(BulkRequests(HeaderUpdates \cup QueryUpdates))

SpecQuery == Init /\ [][NextQuery]_vars

\* one request, every string url: the state after an upload, then bulk updates
InitUrl ==
    /\ uploads \in {<<c>> : c \in UrlDocs}
    /\ response = Reply(200, TRUE, uploads)
    /\ op = [name |-> "upload"]
    /\ before = <<>>
    /\ visited = <<>>

NextUrl == bulk_update(BulkRequests({u \in QueryUpdates : WellFormed(u[1].data)}))

SpecUrl == InitUrl /\ [][NextUrl]_vars

----------------------------------------------------------------------------
(* What the properties below speak of *)

\* The last handler was a bulk update that answered success.
Succeeded == op.name = "bulk_update" /\ response.success

\* The directives of the last bulk update for one update type (none or one).
Directives(type) ==
    {op.data.updates[i].data : i \in {j \in DOMAIN op.data.updates : op.data.updates[j].type = type}}

\* The requests of a tree of items in document order.
RECURSIVE RequestsOf(_)
RequestsOf(items) ==
    IF items = <<>> THEN <<>>
    ELSE (IF Has(Head(items), "request") THEN <<Head(items).request>> ELSE <<>>)
            \o (IF Has(Head(items), "item") THEN RequestsOf(Head(items).item) ELSE <<>>)
            \o RequestsOf(Tail(items))

\* The places of the items that carry a request, in document order.
RECURSIVE PathsFrom(_, _, _)
PathsFrom(items, i, path) ==
    IF i > Len(items) THEN <<>>
    ELSE (IF Has(items[i], "request") THEN <<Append(path, i)>> ELSE <<>>)
            \o (IF Has(items[i], "item") THEN PathsFrom(items[i].item, 1, Append(path, i))
                ELSE <<>>)
            \o PathsFrom(items, i + 1, path)

BeforeReqs == RequestsOf(before[1].item)
AfterReqs == RequestsOf(uploads[1].item)

\* A field of a dict is as it was: absent from both or equal in both.
Same(b, a, f) == (Has(b, f) <=> Has(a, f)) /\ (Has(b, f) => a[f] = b[f])

Count(list, key) == Cardinality({i \in 1..Len(list) : list[i].key = key})

\* The entries of list whose key is not key, in their order.
RECURSIVE Others(_, _)
Others(list, key) ==
    IF list = <<>> THEN <<>>
    ELSE IF Head(list).key = key THEN Others(Tail(list), key)
    ELSE <<Head(list)>> \o Others(Tail(list), key)

\* l1 is l0 after an add of (key, value): the first entry of l0 with the key
\* holds the value and nothing else differs, or, l0 having no such entry, l1
\* is l0 and one more entry with the key and the value.
AddedTo(l0, l1, key, value) ==
    LET i0 == FirstMatch(l0, key)
    IN  IF i0 = 0
        THEN /\ Len(l1) = Len(l0) + 1
             /\ SubSeq(l1, 1, Len(l0)) = l0
             /\ l1[Len(l1)].key = key
             /\ l1[Len(l1)].value = value
        ELSE /\ Len(l1) = Len(l0)
             /\ \A i \in 1..Len(l0) : i # i0 => l1[i] = l0[i]
             /\ l1[i0] = [l0[i0] EXCEPT !.value = value]

----------------------------------------------------------------------------
(* Header operator *)

\* C1, as stated: after a headers add of key K the header list of every
\* request holds exactly one entry with key K, at the index of the first
\* entry that had key K or at the end, with the directive's value.
C1_ExactlyOne ==
    Succeeded =>
        \A d \in Directives("headers") : d.action = "add" =>
            \A n \in 1..Len(BeforeReqs) :
                LET l0 == Get(BeforeReqs[n], "header", <<>>)
                    l1 == AfterReqs[n].header
                    at == IF FirstMatch(l0, d.key) = 0 THEN Len(l0) + 1
                          ELSE FirstMatch(l0, d.key)
                IN  /\ Count(l1, d.key) = 1
                    /\ l1[at].key = d.key
                    /\ l1[at].value = d.value

\* C1, amended: after a headers add of key K the first entry with key K of
\* every request's header list sits at the index of the first entry that had
\* key K, or at the end when none had (its type then the directive's, "text"
\* by default), and holds the directive's value; every other entry, further
\* entries with key K among them, is as it was.
C1_FirstMatchUpdated ==
    Succeeded =>
        \A d \in Directives("headers") : d.action = "add" =>
            \A n \in 1..Len(BeforeReqs) :
                LET l0 == Get(BeforeReqs[n], "header", <<>>)
                    l1 == AfterReqs[n].header
                IN  /\ Has(AfterReqs[n], "header")
                    /\ AddedTo(l0, l1, d.key, d.value)
                    /\ FirstMatch(l0, d.key) = 0 =>
                           l1[Len(l1)].type = Get(d, "type", Text)
                    /\ Count(l1, d.key) = IF Count(l0, d.key) = 0 THEN 1
                                          ELSE Count(l0, d.key)

\* A headers add has acted on a list that held the key twice.
C1_Witness ==
    /\ Succeeded
    /\ \E d \in Directives("headers") :
           /\ d.action = "add"
           /\ \E n \in 1..Len(BeforeReqs) :
                  /\ Has(BeforeReqs[n], "header")
                  /\ Count(BeforeReqs[n].header, d.key) = 2
                  /\ BeforeReqs[n].header[1].value # d.value

\* C2: after a headers remove of key K no entry with key K is left and the
\* other entries are the prior ones in their prior order; a request without
\* a header field is left as it was.
C2_RemoveAll ==
    Succeeded =>
        \A d \in Directives("headers") : d.action = "remove" /\ Has(d, "key") =>
            \A n \in 1..Len(BeforeReqs) :
                IF Has(BeforeReqs[n], "header")
                THEN /\ Count(AfterReqs[n].header, d.key) = 0
                     /\ AfterReqs[n].header = Others(BeforeReqs[n].header, d.key)
                     /\ \A f \in DOMAIN BeforeReqs[n] \ {"header", "url"} :
                            Same(BeforeReqs[n], AfterReqs[n], f)
                ELSE /\ ~Has(AfterReqs[n], "header")
                     /\ Directives("query_params") = {} => AfterReqs[n] = BeforeReqs[n]

\* A headers remove has acted on a list that held the key twice, around an
\* entry with another key.
C2_Witness ==
    /\ Succeeded
    /\ \E d \in Directives("headers") :
           /\ d.action = "remove"
           /\ \E n \in 1..Len(BeforeReqs) :
                  /\ Has(BeforeReqs[n], "header")
                  /\ Count(BeforeReqs[n].header, d.key) = 2
                  /\ Len(AfterReqs[n].header) = Len(BeforeReqs[n].header) - 2

\* C8, as stated: a headers add applied to the list a headers add produced
\* yields that list again, and the list holds exactly one entry with key K,
\* which has value V.
C8_OnceAndExactlyOne ==
    Succeeded =>
        \A d \in Directives("headers") : d.action = "add" =>
            \A n \in 1..Len(AfterReqs) :
                /\ HeadersUpdate(AfterReqs[n], d) = Ok(AfterReqs[n])
                /\ Count(AfterReqs[n].header, d.key) = 1
                /\ AfterReqs[n].header[FirstMatch(AfterReqs[n].header, d.key)].value = d.value

\* C8, amended: a headers add applied to the list a headers add produced
\* yields that list again, and the first entry with key K of the list has
\* value V (there is one; there may be more).
C8_Idempotent ==
    Succeeded =>
        \A d \in Directives("headers") : d.action = "add" =>
            \A n \in 1..Len(AfterReqs) :
                /\ HeadersUpdate(AfterReqs[n], d) = Ok(AfterReqs[n])
                /\ FirstMatch(AfterReqs[n].header, d.key) # 0
                /\ AfterReqs[n].header[FirstMatch(AfterReqs[n].header, d.key)].value = d.value

\* The same headers add has acted twice in a row, the first time on a list
\* that did not hold the key.
C8_Witness ==
    /\ Succeeded
    /\ before = uploads
    /\ \E d \in Directives("headers") :
           /\ d.action = "add"
           /\ \E n \in 1..Len(AfterReqs) :
                  LET l == AfterReqs[n].header
                  IN  /\ Len(l) > 1
                      /\ l[Len(l)] = [key |-> d.key, value |-> d.value, type |-> <<"x">>]
                      /\ Count(l, d.key) = 1

----------------------------------------------------------------------------
(* Query operator and raw url *)

\* The query list a request's url held before a query operation: none for a
\* string url or a structured url without 'query'.
PriorQuery(req) ==
    IF IsStr(req.url) THEN <<>> ELSE Get(req.url, "query", <<>>)

\* C3, as stated: after a query_params add of K, V the url of every request
\* that had one holds exactly one query entry with key K, and its value is V.
C3_ExactlyOne ==
    Succeeded =>
        \A d \in Directives("query_params") : d.action = "add" =>
            \A n \in 1..Len(BeforeReqs) : Has(BeforeReqs[n], "url") =>
                LET l1 == AfterReqs[n].url.query
                IN  /\ Count(l1, d.key) = 1
                    /\ l1[FirstMatch(l1, d.key)].value = d.value

\* C3, amended: after a query_params add of K, V the first query entry with
\* key K of every request that had a url sits at the index of the first entry
\* that had key K, or at the end when none had, and holds V; every other
\* entry, further entries with key K among them, is as it was.
C3_FirstMatchUpdated ==
    Succeeded =>
        \A d \in Directives("query_params") : d.action = "add" =>
            \A n \in 1..Len(BeforeReqs) : Has(BeforeReqs[n], "url") =>
                LET l0 == PriorQuery(BeforeReqs[n])
                    l1 == AfterReqs[n].url.query
                IN  /\ ~IsStr(AfterReqs[n].url)
                    /\ AddedTo(l0, l1, d.key, d.value)
                    /\ FirstMatch(l0, d.key) = 0 => l1[Len(l1)] = [key |-> d.key, value |-> d.value]
                    /\ Count(l1, d.key) = IF Count(l0, d.key) = 0 THEN 1
                                          ELSE Count(l0, d.key)

\* A query_params add has acted on a structured url whose query held the
\* key twice.
C3_Witness ==
    /\ Succeeded
    /\ \E d \in Directives("query_params") :
           /\ d.action = "add"
           /\ \E n \in 1..Len(BeforeReqs) :
                  /\ Has(BeforeReqs[n], "url")
                  /\ Count(PriorQuery(BeforeReqs[n]), d.key) = 2
                  /\ PriorQuery(BeforeReqs[n])[1].value # d.value

\* "{protocol}://{host}/{path}?{query}" of a structured url, the protocol
\* "http" whenever the url has none.
RawOf(url) ==
    (IF Has(url, "protocol") /\ url.protocol # None THEN url.protocol
     ELSE <<"h", "t", "t", "p">>)
        \o <<":", "/", "/">> \o Join(url.host, <<".">>)
        \o <<"/">> \o Join(url.path, <<"/">>)
        \o <<"?">> \o Join(QueryPairs(url.query), <<"&">>)

\* C4: after a query_params add the raw of every request's url is
\* "{protocol}://{host}/{path}?{query}" of the resulting structured url, with
\* "http" for a url that has no protocol.
C4_RawRebuilt ==
    Succeeded =>
        \A d \in Directives("query_params") : d.action = "add" =>
            \A n \in 1..Len(BeforeReqs) : Has(BeforeReqs[n], "url") =>
                AfterReqs[n].url.raw = RawOf(AfterReqs[n].url)

\* What one bulk update may do to a request.
RequestKept(b, a) ==
    /\ DOMAIN b \subseteq DOMAIN a
    /\ DOMAIN a \subseteq DOMAIN b \cup {"header"}
    /\ \A f \in DOMAIN b \ {"header", "url"} : a[f] = b[f]
    /\ Directives("query_params") = {} => Same(b, a, "url")
    /\ Directives("headers") = {} => Same(b, a, "header")
    /\ (Has(b, "url") /\ ~IsStr(b.url)) =>
           /\ DOMAIN b.url \subseteq DOMAIN a.url
           /\ DOMAIN a.url \subseteq DOMAIN b.url \cup {"query"}
           /\ \A f \in (DOMAIN b.url \cup {"protocol", "host", "path"}) \ {"query", "raw"} :
                  Same(b.url, a.url, f)
           /\ \A d \in Directives("query_params") : d.action = "remove" =>
                  /\ Same(b.url, a.url, "raw")
                  /\ Count(a.url.query, d.key) = 0
                  /\ a.url.query = Others(Get(b.url, "query", <<>>), d.key)

\* What one bulk update may do to a tree of items.
RECURSIVE ItemsKept(_, _)
ItemsKept(b, a) ==
    /\ Len(a) = Len(b)
    /\ \A i \in 1..Len(b) :
           /\ DOMAIN a[i] = DOMAIN b[i]
           /\ \A f \in DOMAIN b[i] \ {"request", "item"} : a[i][f] = b[i][f]
           /\ Has(b[i], "request") => RequestKept(b[i].request, a[i].request)
           /\ Has(b[i], "item") => ItemsKept(b[i].item, a[i].item)

\* C10: a bulk update leaves protocol, host and path of a structured url as
\* they were; a query add changes query and raw only, a query remove changes
\* query only (no entry with key K left, raw as it was), a headers directive
\* changes nothing in url; no other field of an item or a request changes.
C10_Frame ==
    (op.name = "bulk_update" /\ before # <<>>) =>
        IF response.success
        THEN /\ \A f \in DOMAIN before[1] \cup DOMAIN uploads[1] :
                    f # "item" => Same(before[1], uploads[1], f)
             /\ ItemsKept(before[1].item, uploads[1].item)
        ELSE uploads = before

\* A query_params remove has acted on a structured url that held the key,
\* and the raw it keeps is not the raw of what is left.
C10_Witness ==
    /\ Succeeded
    /\ \E d \in Directives("query_params") :
           /\ d.action = "remove"
           /\ \E n \in 1..Len(BeforeReqs) :
                  /\ Has(BeforeReqs[n], "url")
                  /\ ~IsStr(BeforeReqs[n].url)
                  /\ Has(BeforeReqs[n].url, "protocol")
                  /\ Count(PriorQuery(BeforeReqs[n]), d.key) > 0
                  /\ Len(AfterReqs[n].url.query) > 0
                  /\ AfterReqs[n].url.raw # RawOf(AfterReqs[n].url)
                  /\ AfterReqs[n].url.raw # <<"r">>

----------------------------------------------------------------------------
(* Walk, validation and string urls *)

\* A request reflects a directive.
Reflects(req, type, d) ==
    IF type = "headers" /\ d.action = "add"
    THEN /\ Has(req, "header")
         /\ \E i \in 1..Len(req.header) :
                req.header[i].key = d.key /\ req.header[i].value = d.value
    ELSE IF type = "headers" /\ d.action = "remove"
    THEN Has(req, "header") => Count(req.header, d.key) = 0
    ELSE IF type = "query_params" /\ d.action = "add"
    THEN /\ Has(req, "url")
         /\ ~IsStr(req.url)
         /\ \E i \in 1..Len(req.url.query) :
                req.url.query[i].key = d.key /\ req.url.query[i].value = d.value
    ELSE TRUE

\* Every directive of the last bulk update had its fields.
AllWellFormed ==
    \A type \in {"headers", "query_params"} : \A d \in Directives(type) : WellFormed(d)

\* C5, as stated: after a bulk update every request of the tree reflects
\* every directive, at any depth and below any kind of item, and the requests
\* were each handled once, in document order.
C5_AllReflect ==
    (Succeeded /\ AllWellFormed) =>
        /\ visited = PathsFrom(before[1].item, 1, <<>>)
        /\ \A n \in 1..Len(AfterReqs) :
               \A type \in {"headers", "query_params"} : \A d \in Directives(type) :
                   Reflects(AfterReqs[n], type, d)

\* C5, amended: after a bulk update every request of the tree reflects every
\* headers directive, and every request that has a url reflects every
\* query_params directive (a request without url is left without one), at
\* any depth and below any kind of item; the requests were each handled
\* once, in document order.
C5_AllWithUrlReflect ==
    (Succeeded /\ AllWellFormed) =>
        /\ visited = PathsFrom(before[1].item, 1, <<>>)
        /\ Len(AfterReqs) = Len(BeforeReqs)
        /\ Len(visited) = Len(AfterReqs)
        /\ \A n \in 1..Len(AfterReqs) :
               /\ \A d \in Directives("headers") : Reflects(AfterReqs[n], "headers", d)
               /\ \A d \in Directives("query_params") :
                      IF Has(BeforeReqs[n], "url")
                      THEN Reflects(AfterReqs[n], "query_params", d)
                      ELSE ~Has(AfterReqs[n], "url")

\* A headers add and a query_params add have acted on a request two levels
\* down, below items that carry a request themselves.
C5_Witness ==
    /\ Succeeded
    /\ Len(op.data.updates) = 2
    /\ \A type \in {"headers", "query_params"} :
           \E d \in Directives(type) : d.action = "add" /\ WellFormed(d)
    /\ \E i \in 1..Len(visited) :
           /\ Len(visited[i]) = 3
           /\ Has(before[1].item[visited[i][1]], "request")
           /\ Has(AfterReqs[i], "url")
           /\ Has(BeforeReqs[i], "header")
           /\ Count(BeforeReqs[i].header, K) = 1
           /\ IsStr(BeforeReqs[i].url)

\* C6: a bulk update of a valid document with a directive that lacks 'key',
\* or 'value' on an add, answers an error and leaves the stored document as
\* it was, whatever the document holds.
C6_MalformedRejected ==
    (op.name = "bulk_update" /\ Has(op.data, "updates") /\ before # <<>>
        /\ Has(before[1], "info") /\ Has(before[1], "item") /\ ~AllWellFormed) =>
        /\ ~response.success
        /\ uploads = before

\* C7: a bulk update on a stored document without 'info' or without 'item'
\* answers an error and leaves the document as it was.
C7_InvalidDocumentRejected ==
    (op.name = "bulk_update" /\ Has(op.data, "updates") /\ before # <<>>
        /\ (~Has(before[1], "info") \/ ~Has(before[1], "item"))) =>
        /\ ~response.success
        /\ uploads = before

\* The text of s before the first sep, all of s when sep does not occur.
UpTo(s, sep) == IF Find(s, sep) = 0 THEN s ELSE SubSeq(s, 1, Find(s, sep) - 1)

\* The text of s after the first sep.
After(s, sep) == SubSeq(s, Find(s, sep) + Len(sep), Len(s))

\* C9: a string url is normalized to: protocol the text of base before the
\* first "://", host the first '/'-segment of all that follows it split on
\* '.', path the other '/'-segments; without "://" no protocol and base
\* itself split so; base the text before the first '?'; the query only what
\* the operation adds.  The example url gives the example's structured url.
C9_Normalized ==
    Succeeded =>
        \A d \in Directives("query_params") :
            \A n \in 1..Len(BeforeReqs) :
                (Has(BeforeReqs[n], "url") /\ IsStr(BeforeReqs[n].url)) =>
                    LET s    == BeforeReqs[n].url.str
                        base == UpTo(s, <<"?">>)
                        has  == Contains(base, <<":", "/", "/">>)
                        rest == IF has THEN After(base, <<":", "/", "/">>) ELSE base
                        segs == Split(rest, <<"/">>)
                        url  == AfterReqs[n].url
                    IN  /\ ~IsStr(url)
                        /\ IF has THEN url.protocol = UpTo(base, <<":", "/", "/">>)
                           ELSE ~Has(url, "protocol") \/ url.protocol = None
                        /\ url.host = Split(segs[1], <<".">>)
                        /\ url.path = Tail(segs)
                        /\ url.query = IF d.action = "add"
                                       THEN <<[key |-> d.key, value |-> d.value]>>
                                       ELSE <<>>
                        /\ (s = ExampleUrl /\ d.action = "add") =>
                               url.raw = ExampleUrl \o <<"?">> \o d.key \o <<"=">> \o d.value

====
